---- MODULE Spec2Model ----
(***************************************************************************)
(* The experiment state machine of apsis: Experiment                       *)
(* (code/apsis/models/experiment.py) and the ExperimentAssistant that      *)
(* drives it (code/apsis/assistants/experiment_assistant.py).              *)
(*                                                                         *)
(* A Candidate is an object identity 1..NumCands; result holds the result  *)
(* attribute of every Candidate (a number, or None while it is unset).     *)
(* Python lists are sequences.  last records the call that produced the    *)
(* state, trace the calls that call made on its collaborators, in order.   *)
(* workers holds, for calls that run concurrently, where each caller is in *)
(* its call and what it holds.  parameter_definitions maps the parameter   *)
(* names of the experiment to the kind of their definition, and proposal   *)
(* is the run of AcquisitionFunction.compute_proposals                     *)
(* (code/apsis/optimizers/bayesian/acquisition_functions.py): its          *)
(* arguments, its local variables and where it stands.  write_dir is the   *)
(* directory the assistant writes its state to.                            *)
(***************************************************************************)
EXTENDS Integers, Sequences, FiniteSets, TLC

VARIABLES candidates_pending, candidates_working, candidates_finished,
          best_candidate, result, minimization_problem, last, trace,
          workers, parameter_definitions, proposal, write_dir

vars == <<candidates_pending, candidates_working, candidates_finished,
          best_candidate, result, minimization_problem, last, trace,
          workers, parameter_definitions, proposal, write_dir>>

\* ---------------------------------------------------------------- bounds
NumCands == 2
MaxResult == 2
MaxQueue == 3
MaxCalls == 2
NumParams == 2
MaxProposals == 2

\* ------------------------------------------------------------ the values
\* Python's None: the unset best_candidate, the unset Candidate.result.
None == 0
\* An argument that fails isinstance(candidate, Candidate).
NotACandidate == -1

Cands == 1..NumCands
Results == 1..MaxResult
Args == Cands \cup {NotACandidate}
AVAILABLE_STATUS == {"finished", "pausing", "working"}
StatusArgs == AVAILABLE_STATUS \cup {"bogus"}

isCandidate(x) == x \in Cands

\* --------------------------------------------------------- list helpers
\* x in lst
In(x, lst) == \E i \in 1..Len(lst) : lst[i] = x

\* the number of occurrences of x in lst
Count(x, lst) == Cardinality({i \in 1..Len(lst) : lst[i] = x})

\* lst.remove(x): drops the first occurrence of x (x is known to be in lst)
ListRemove(lst, x) ==
    LET k == CHOOSE i \in 1..Len(lst) :
                 lst[i] = x /\ \A j \in 1..(i - 1) : lst[j] # x
    IN  SubSeq(lst, 1, k - 1) \o SubSeq(lst, k + 1, Len(lst))

\* "if x in lst: lst.remove(x)"
RemoveIfIn(lst, x) == IF In(x, lst) THEN ListRemove(lst, x) ELSE lst

\* ---------------------------------------------------------- better_cand
\* better_cand testing the baseline for None before candidateA.
better_cand_BaselineFirst(res, candidateA, candidateB) ==
    IF candidateB = None THEN TRUE
    ELSE IF candidateA = None THEN FALSE
    ELSE LET aResult == res[candidateA]
             bResult == res[candidateB]
         IN  IF aResult = None THEN FALSE
             ELSE IF bResult = None THEN TRUE
             ELSE IF minimization_problem THEN aResult < bResult
             ELSE aResult > bResult

\* better_cand comparing with <= and >=.
better_cand_TiesWin(res, candidateA, candidateB) ==
    IF candidateA = None THEN FALSE
    ELSE IF candidateB = None THEN TRUE
    ELSE LET aResult == res[candidateA]
             bResult == res[candidateB]
         IN  IF aResult = None THEN FALSE
             ELSE IF bResult = None THEN TRUE
             ELSE IF minimization_problem THEN aResult <= bResult
             ELSE aResult >= bResult

\* Experiment.better_cand on arguments that are Candidates or None; res holds
\* the result attribute of every Candidate at the time of the call.
better_cand(res, candidateA, candidateB) ==
    IF candidateA = None THEN FALSE
    ELSE IF candidateB = None THEN TRUE
    ELSE LET aResult == res[candidateA]
             bResult == res[candidateB]
         IN  IF aResult = None THEN FALSE
             ELSE IF bResult = None THEN TRUE
             ELSE IF minimization_problem THEN aResult < bResult
             ELSE aResult > bResult

\* the value of _write_dir when no directory is given
NoDir == "None"
WriteDirs == {NoDir, "checkpoints"}

\* _write_state_to_file(), as the calls it makes: none when _write_dir is
\* None.
write_state_to_file ==
    IF write_dir = NoDir THEN <<"write_state">>
    ELSE <<"write_state", "json.dump", "experiment.write_state_to_file">>

\* ------------------------------------------------------------ the record
\* of the call that produced the current state: its name, its first
\* argument, its second argument (update's status, better_cand's candidateB,
\* or what the optimizer answered to get_next_candidate), whether it raised,
\* and what it returned.
Call(op, a, b, raised, ret) ==
    [op |-> op, a |-> a, b |-> b, raised |-> raised, ret |-> ret]

Total(p, w, f) == Len(p) + Len(w) + Len(f)

\* The model explores runs whose lists hold at most MaxQueue entries.
Fits(p, w, f) == Total(p, w, f) <= MaxQueue

\* The callers of concurrent calls, and a caller that is in no call and has
\* made none.
\* The names of the parameters, in their sorted order.
ParamNames == 1..NumParams

\* No run of compute_proposals has started.
NoProposals ==
    [pc |-> "idle", acq |-> "none", optimization |-> "none",
     number_proposals |-> 0, random_steps_given |-> 0, random_steps |-> 0,
     evaluated_params |-> <<>>, evaluated_values |-> <<>>,
     evaluated_acq_scores |-> <<>>,
     sum_acq |-> <<>>, best_param_idx |-> 0, best_score |-> 0,
     x_bests |-> <<>>, proposals |-> <<>>, random_proposals |-> <<>>,
     sum_rands |-> <<>>, tradeoff |-> 0, raised |-> "none",
     success |-> FALSE, x_min |-> <<>>]

Workers == {"w1", "w2"}
Idle == [pc |-> "idle", op |-> "none", status |-> "none", cand |-> None,
         ret |-> None, raised |-> FALSE, popped |-> FALSE, overlap |-> FALSE,
         calls |-> 0]

\* ----------------------------------------------------------------- Init
\* Experiment.__init__: three empty lists, best_candidate None.  A Candidate
\* is created without a result; the worker that evaluates it sets result
\* once, before the candidate is announced as finished.
\* What the calls on the experiment and its assistant leave alone.
RestUnchanged ==
    UNCHANGED <<workers, parameter_definitions, proposal, write_dir>>

Init ==
    /\ candidates_pending = <<>>
    /\ candidates_working = <<>>
    /\ candidates_finished = <<>>
    /\ best_candidate = None
    /\ result = [c \in Cands |-> None]
    /\ minimization_problem \in BOOLEAN
    /\ last = Call("init", None, None, FALSE, None)
    /\ trace = <<>>
    /\ workers = [w \in Workers |-> Idle]
    /\ parameter_definitions = [pn \in ParamNames |-> "NumericParamDef"]
    /\ proposal = NoProposals
    /\ write_dir = NoDir

\* A call that raised before touching the experiment.
Raise(op, a, b) ==
    /\ last' = Call(op, a, b, TRUE, None)
    /\ RestUnchanged
    /\ trace' = <<>>
    /\ UNCHANGED <<candidates_pending, candidates_working,
                   candidates_finished, best_candidate, result,
                   minimization_problem>>

\* The result attribute the candidate carries when it is announced as
\* finished: res, set by the worker, unless the candidate was announced
\* before (result is set once).
Carries(candidate, res) ==
    /\ In(candidate, candidates_finished) => res = result[candidate]
    /\ result' = [result EXCEPT ![candidate] = res]

\* ---------------------------------------------------------- Experiment
\* Experiment.add_finished(candidate), candidate a Candidate.
FinishedPending(candidate) == RemoveIfIn(candidates_pending, candidate)
FinishedWorking(candidate) == RemoveIfIn(candidates_working, candidate)
\* add_finished putting the candidate in front of candidates_finished.
FinishedFinished_InFront(candidate) == <<candidate>> \o candidates_finished

FinishedFinished(candidate) == Append(candidates_finished, candidate)
\* add_finished's update of best_candidate with the arguments of better_cand
\* exchanged.
FinishedBest_Reversed(candidate) ==
    IF best_candidate = None \/ better_cand(result', best_candidate, candidate)
    THEN candidate
    ELSE best_candidate

\* ... skipping a candidate that has no result.
FinishedBest_NeedsResult(candidate) ==
    IF result'[candidate] = None THEN best_candidate
    ELSE IF best_candidate = None
            \/ better_cand(result', candidate, best_candidate)
    THEN candidate
    ELSE best_candidate

\* ... replacing best_candidate unless it is strictly better.
FinishedBest_TieReplaces(candidate) ==
    IF best_candidate = None \/ ~better_cand(result', best_candidate, candidate)
    THEN candidate
    ELSE best_candidate

\* ... always taking the candidate finished last.
FinishedBest_Newest(candidate) == candidate

\* ... keeping the candidate that finished first.
FinishedBest_FirstStays(candidate) ==
    IF best_candidate = None THEN candidate ELSE best_candidate

FinishedBest(candidate) ==
    IF best_candidate = None \/ better_cand(result', candidate, best_candidate)
    THEN candidate
    ELSE best_candidate

add_finished(candidate) ==
    /\ candidates_pending' = FinishedPending(candidate)
    /\ candidates_working' = FinishedWorking(candidate)
    /\ candidates_finished' = FinishedFinished(candidate)
    /\ best_candidate' = FinishedBest(candidate)

\* Experiment.add_pending(candidate), candidate a Candidate.
add_pending(candidate) ==
    /\ candidates_pending' = Append(candidates_pending, candidate)
    /\ UNCHANGED <<candidates_working, candidates_finished, best_candidate>>

\* Experiment.add_working(candidate), candidate a Candidate.
\* (pending is candidates_pending as the caller left it.)
WorkingPending(pending, candidate) == RemoveIfIn(pending, candidate)
WorkingWorking(candidate) == Append(candidates_working, candidate)

add_working(candidate) ==
    /\ candidates_pending' = WorkingPending(candidates_pending, candidate)
    /\ candidates_working' = WorkingWorking(candidate)
    /\ UNCHANGED <<candidates_finished, best_candidate>>

\* Experiment.add_pausing(candidate), candidate a Candidate.
PausingWorking(candidate) == RemoveIfIn(candidates_working, candidate)
PausingPending(candidate) == Append(candidates_pending, candidate)

\* add_pausing withdrawing a paused candidate from best_candidate.
add_pausing_DropsBest(candidate) ==
    /\ candidates_working' = PausingWorking(candidate)
    /\ candidates_pending' = PausingPending(candidate)
    /\ best_candidate' = IF best_candidate = candidate THEN None
                                                       ELSE best_candidate
    /\ UNCHANGED candidates_finished

add_pausing(candidate) ==
    /\ candidates_working' = PausingWorking(candidate)
    /\ candidates_pending' = PausingPending(candidate)
    /\ UNCHANGED <<candidates_finished, best_candidate>>

\* A direct call of one of the four Experiment operations.
AddFinished(candidate, res) ==
    IF ~isCandidate(candidate) THEN Raise("add_finished", candidate, None)
    ELSE /\ Carries(candidate, res)
         /\ add_finished(candidate)
         /\ Fits(candidates_pending', candidates_working', candidates_finished')
         /\ last' = Call("add_finished", candidate, None, FALSE, None)
         /\ RestUnchanged
         /\ trace' = <<>>
         /\ UNCHANGED minimization_problem

\* add_pending validating its argument after the append.
AddPending_ValidatesLate(candidate) ==
    /\ add_pending(candidate)
    /\ Fits(candidates_pending', candidates_working', candidates_finished')
    /\ last' = Call("add_pending", candidate, None, ~isCandidate(candidate),
                    None)
    /\ RestUnchanged
    /\ trace' = <<>>
    /\ UNCHANGED <<result, minimization_problem>>

AddPending(candidate) ==
    IF ~isCandidate(candidate) THEN Raise("add_pending", candidate, None)
    ELSE /\ add_pending(candidate)
         /\ Fits(candidates_pending', candidates_working', candidates_finished')
         /\ last' = Call("add_pending", candidate, None, FALSE, None)
         /\ RestUnchanged
         /\ trace' = <<>>
         /\ UNCHANGED <<result, minimization_problem>>

AddWorking(candidate) ==
    IF ~isCandidate(candidate) THEN Raise("add_working", candidate, None)
    ELSE /\ add_working(candidate)
         /\ Fits(candidates_pending', candidates_working', candidates_finished')
         /\ last' = Call("add_working", candidate, None, FALSE, None)
         /\ RestUnchanged
         /\ trace' = <<>>
         /\ UNCHANGED <<result, minimization_problem>>

AddPausing(candidate) ==
    IF ~isCandidate(candidate) THEN Raise("add_pausing", candidate, None)
    ELSE /\ add_pausing(candidate)
         /\ Fits(candidates_pending', candidates_working', candidates_finished')
         /\ last' = Call("add_pausing", candidate, None, FALSE, None)
         /\ RestUnchanged
         /\ trace' = <<>>
         /\ UNCHANGED <<result, minimization_problem>>

\* ------------------------------------------------- ExperimentAssistant
\* What self._optimizer.get_next_candidates(num_candidates=1) answers: None,
\* an empty list, or a list whose first element is a newly created Candidate.
OptimizerAnswers == {"none", "empty", "one"}

\* A Candidate the optimizer has just created is in no list yet.
Fresh(c) ==
    /\ ~In(c, candidates_pending)
    /\ ~In(c, candidates_working)
    /\ ~In(c, candidates_finished)

\* candidates_pending.pop(): the last element, and the list without it.
\* pop(0): the first element.
PopValue_First(lst) == lst[1]

PopValue(lst) == lst[Len(lst)]
PopRest(lst) == SubSeq(lst, 1, Len(lst) - 1)

\* get_next_candidate asking the optimizer before it looks at
\* candidates_pending.
GetNextCandidate_AsksFirst(answer, c) ==
    IF candidates_pending = <<>>
    THEN IF answer = "one"
         THEN /\ Fresh(c)
              /\ add_working(c)
              /\ Fits(candidates_pending', candidates_working',
                      candidates_finished')
              /\ last' = Call("get_next_candidate", None, answer, FALSE, c)
              /\ RestUnchanged
              /\ trace' = <<"optimizer.get_next_candidates", "add_working">>
                   \o write_state_to_file
              /\ UNCHANGED <<result, minimization_problem>>
         ELSE /\ last' = Call("get_next_candidate", None, answer, FALSE, None)
              /\ RestUnchanged
              /\ trace' = <<"optimizer.get_next_candidates">>
                   \o write_state_to_file
              /\ UNCHANGED <<candidates_pending, candidates_working,
                             candidates_finished, best_candidate, result,
                             minimization_problem>>
    ELSE LET cand == PopValue(candidates_pending)
             popped == PopRest(candidates_pending)
         IN  /\ candidates_pending' = WorkingPending(popped, cand)
             /\ candidates_working' = WorkingWorking(cand)
             /\ last' = Call("get_next_candidate", None, "not asked", FALSE,
                             cand)
             /\ RestUnchanged
             /\ trace' = <<"optimizer.get_next_candidates", "pop",
                           "add_working">>
                   \o write_state_to_file
             /\ UNCHANGED <<candidates_finished, best_candidate, result,
                            minimization_problem>>

\* get_next_candidate taking candidates[0] of an empty answer: IndexError.
GetNextCandidate_EmptyRaises(answer, c) ==
    IF candidates_pending = <<>>
    THEN IF answer = "one"
         THEN /\ Fresh(c)
              /\ add_working(c)
              /\ Fits(candidates_pending', candidates_working',
                      candidates_finished')
              /\ last' = Call("get_next_candidate", None, answer, FALSE, c)
              /\ RestUnchanged
              /\ trace' = <<"optimizer.get_next_candidates", "add_working">>
                   \o write_state_to_file
              /\ UNCHANGED <<result, minimization_problem>>
         ELSE /\ last' = Call("get_next_candidate", None, answer,
                              answer = "empty", None)
              /\ RestUnchanged
              /\ trace' = IF answer = "empty"
                          THEN <<"optimizer.get_next_candidates">>
                          ELSE <<"optimizer.get_next_candidates">>
                   \o write_state_to_file
              /\ UNCHANGED <<candidates_pending, candidates_working,
                             candidates_finished, best_candidate, result,
                             minimization_problem>>
    ELSE LET cand == PopValue(candidates_pending)
             popped == PopRest(candidates_pending)
         IN  /\ candidates_pending' = WorkingPending(popped, cand)
             /\ candidates_working' = WorkingWorking(cand)
             /\ last' = Call("get_next_candidate", None, "not asked", FALSE,
                             cand)
             /\ RestUnchanged
             /\ trace' = <<"pop", "add_working">>
                   \o write_state_to_file
             /\ UNCHANGED <<candidates_finished, best_candidate, result,
                            minimization_problem>>

\* ExperimentAssistant.get_next_candidate().
GetNextCandidate(answer, c) ==
    IF candidates_pending = <<>>
    THEN IF answer = "one"
         THEN /\ Fresh(c)
              /\ add_working(c)
              /\ Fits(candidates_pending', candidates_working',
                      candidates_finished')
              /\ last' = Call("get_next_candidate", None, answer, FALSE, c)
              /\ RestUnchanged
              /\ trace' = <<"optimizer.get_next_candidates", "add_working">>
                   \o write_state_to_file
              /\ UNCHANGED <<result, minimization_problem>>
         ELSE /\ last' = Call("get_next_candidate", None, answer, FALSE, None)
              /\ RestUnchanged
              /\ trace' = <<"optimizer.get_next_candidates">>
                   \o write_state_to_file
              /\ UNCHANGED <<candidates_pending, candidates_working,
                             candidates_finished, best_candidate, result,
                             minimization_problem>>
    ELSE LET cand == PopValue(candidates_pending)
             popped == PopRest(candidates_pending)
         IN  /\ candidates_pending' = WorkingPending(popped, cand)
             /\ candidates_working' = WorkingWorking(cand)
             /\ last' = Call("get_next_candidate", None, "not asked", FALSE,
                             cand)
             /\ RestUnchanged
             /\ trace' = <<"pop", "add_working">>
                   \o write_state_to_file
             /\ UNCHANGED <<candidates_finished, best_candidate, result,
                            minimization_problem>>

\* update without the test of status: an unknown status matches no branch.
Update_NoStatusCheck(candidate, status, res, retrain_raises) ==
    IF ~isCandidate(candidate) THEN Raise("update", candidate, status)
    ELSE /\ UNCHANGED minimization_problem
         /\ IF status = "finished"
            THEN /\ Carries(candidate, res)
                 /\ add_finished(candidate)
                 /\ last' = Call("update", candidate, status, retrain_raises,
                                 None)
                 /\ RestUnchanged
                 /\ trace' = IF retrain_raises
                              THEN <<"add_finished", "optimizer.update">>
                              ELSE <<"add_finished", "optimizer.update">>
                   \o write_state_to_file
            ELSE /\ res = None
                 /\ retrain_raises = FALSE
                 /\ IF status = "pausing" THEN add_pausing(candidate)
                    ELSE IF status = "working" THEN add_working(candidate)
                    ELSE UNCHANGED <<candidates_pending, candidates_working,
                                     candidates_finished, best_candidate>>
                 /\ last' = Call("update", candidate, status, FALSE, None)
                 /\ RestUnchanged
                 /\ trace' = write_state_to_file
                 /\ UNCHANGED result
         /\ Fits(candidates_pending', candidates_working', candidates_finished')

\* update rebuilding the optimizer after every status, not only "finished".
Update_RetrainsAlways(candidate, status, res, retrain_raises) ==
    IF status \notin AVAILABLE_STATUS THEN Raise("update", candidate, status)
    ELSE IF ~isCandidate(candidate) THEN Raise("update", candidate, status)
    ELSE /\ UNCHANGED minimization_problem
         /\ IF status = "finished"
            THEN /\ Carries(candidate, res)
                 /\ add_finished(candidate)
                 /\ last' = Call("update", candidate, status, retrain_raises,
                                 None)
                 /\ RestUnchanged
                 /\ trace' = IF retrain_raises
                              THEN <<"add_finished", "optimizer.update">>
                              ELSE <<"add_finished", "optimizer.update">>
                   \o write_state_to_file
            ELSE /\ res = None
                 /\ retrain_raises = FALSE
                 /\ IF status = "pausing" THEN add_pausing(candidate)
                                          ELSE add_working(candidate)
                 /\ last' = Call("update", candidate, status, FALSE, None)
                 /\ RestUnchanged
                 /\ trace' = <<"add_" \o status, "optimizer.update">>
                   \o write_state_to_file
                 /\ UNCHANGED result
         /\ Fits(candidates_pending', candidates_working', candidates_finished')

\* ExperimentAssistant.update(candidate, status); res is the result the
\* candidate carries, retrain_raises whether self._optimizer.update raises.
Update(candidate, status, res, retrain_raises) ==
    IF status \notin AVAILABLE_STATUS THEN Raise("update", candidate, status)
    ELSE IF ~isCandidate(candidate) THEN Raise("update", candidate, status)
    ELSE /\ UNCHANGED minimization_problem
         /\ IF status = "finished"
            THEN /\ Carries(candidate, res)
                 /\ add_finished(candidate)
                 /\ last' = Call("update", candidate, status, retrain_raises,
                                 None)
                 /\ RestUnchanged
                 /\ trace' = IF retrain_raises
                              THEN <<"add_finished", "optimizer.update">>
                              ELSE <<"add_finished", "optimizer.update">>
                   \o write_state_to_file
            ELSE /\ res = None
                 /\ retrain_raises = FALSE
                 /\ IF status = "pausing" THEN add_pausing(candidate)
                                          ELSE add_working(candidate)
                 /\ last' = Call("update", candidate, status, FALSE, None)
                 /\ RestUnchanged
                 /\ trace' = <<"add_" \o status>>
                   \o write_state_to_file
                 /\ UNCHANGED result
         /\ Fits(candidates_pending', candidates_working', candidates_finished')

\* A call of Experiment.better_cand(candidateA, candidateB).
CallBetterCand(candidateA, candidateB) ==
    IF ~isCandidate(candidateA) /\ candidateA # None
    THEN Raise("better_cand", candidateA, candidateB)
    ELSE IF ~isCandidate(candidateB) /\ candidateB # None
    THEN Raise("better_cand", candidateA, candidateB)
    ELSE /\ last' = Call("better_cand", candidateA, candidateB, FALSE,
                         better_cand(result, candidateA, candidateB))
         /\ RestUnchanged
         /\ trace' = <<>>
         /\ UNCHANGED <<candidates_pending, candidates_working,
                        candidates_finished, best_candidate, result,
                        minimization_problem>>

\* ------------------------------------------------------- specifications
ResultArgs == Results \cup {None}

\* Calls whose arguments pass the validation of the operation.
Next ==
    \/ \E c \in Cands, r \in ResultArgs : AddFinished(c, r)
    \/ \E c \in Cands : AddPending(c)
    \/ \E c \in Cands : AddWorking(c)
    \/ \E c \in Cands : AddPausing(c)
    \/ \E answer \in OptimizerAnswers, c \in Cands : GetNextCandidate(answer, c)
    \/ \E c \in Cands, r \in ResultArgs, retrain_raises \in BOOLEAN :
          Update(c, "finished", r, retrain_raises)
    \/ \E c \in Cands, status \in {"pausing", "working"} :
          Update(c, status, None, FALSE)

Spec == Init /\ [][Next]_vars

\* better_cand, called on every pair of arguments, the Candidates carrying
\* every combination of results.
InitBetterCand ==
    /\ candidates_pending = <<>>
    /\ candidates_working = <<>>
    /\ candidates_finished = <<>>
    /\ best_candidate = None
    /\ result \in [Cands -> ResultArgs]
    /\ minimization_problem \in BOOLEAN
    /\ last = Call("init", None, None, FALSE, None)
    /\ trace = <<>>
    /\ workers = [w \in Workers |-> Idle]
    /\ parameter_definitions = [pn \in ParamNames |-> "NumericParamDef"]
    /\ proposal = NoProposals
    /\ write_dir = NoDir

NextBetterCand ==
    \E a \in Args \cup {None}, b \in Args \cup {None} : CallBetterCand(a, b)

SpecBetterCand == InitBetterCand /\ [][NextBetterCand]_vars

\* The four Experiment operations, called with Candidates and with
\* arguments that are none.
NextExperiment ==
    \/ \E c \in Args, r \in ResultArgs : AddFinished(c, r)
    \/ \E c \in Args : AddPending(c)
    \/ \E c \in Args : AddWorking(c)
    \/ \E c \in Args : AddPausing(c)

SpecExperiment == Init /\ [][NextExperiment]_vars

\* The ExperimentAssistant, update called with every candidate argument and
\* every status, valid or not.
NextAssistant ==
    \/ \E answer \in OptimizerAnswers, c \in Cands : GetNextCandidate(answer, c)
    \/ \E c \in Args, r \in ResultArgs, retrain_raises \in BOOLEAN :
          Update(c, "finished", r, retrain_raises)
    \/ \E c \in Args, status \in StatusArgs \ {"finished"} :
          Update(c, status, None, FALSE)

SpecAssistant == Init /\ [][NextAssistant]_vars

\* the best candidate kept at every step, whatever came before
RunningBest_Latest(k) == IF k = 0 THEN None ELSE candidates_finished[k]

\* _best_result_per_step_data: its local best_candidate after the first k
\* candidates of candidates_finished
RECURSIVE RunningBest(_)
RunningBest(k) ==
    IF k = 0 THEN None
    ELSE LET e == candidates_finished[k]
             best == RunningBest(k - 1)
         IN  IF better_cand(result, e, best) THEN e ELSE best

\* _best_result_per_step_data(plot_up_to=None): x, step_evaluation and
\* step_best
best_result_per_step_data ==
    LET plot_up_to == Len(candidates_finished)
    IN  [x |-> [i \in 1..plot_up_to |-> i - 1],
         step_evaluation |->
             [i \in 1..plot_up_to |-> result[candidates_finished[i]]],
         step_best |->
             [i \in 1..plot_up_to |->
                 IF better_cand(result, candidates_finished[i],
                                RunningBest(i - 1))
                 THEN result[candidates_finished[i]]
                 ELSE result[RunningBest(i - 1)]]]

\* An assistant with or without a directory to write its state to.
InitCheckpoint ==
    /\ candidates_pending = <<>>
    /\ candidates_working = <<>>
    /\ candidates_finished = <<>>
    /\ best_candidate = None
    /\ result = [c \in Cands |-> None]
    /\ minimization_problem \in BOOLEAN
    /\ last = Call("init", None, None, FALSE, None)
    /\ trace = <<>>
    /\ workers = [w \in Workers |-> Idle]
    /\ parameter_definitions = [pn \in ParamNames |-> "NumericParamDef"]
    /\ proposal = NoProposals
    /\ write_dir \in WriteDirs

SpecCheckpoint == InitCheckpoint /\ [][Next]_vars

\* ------------------------------------------------------ concurrent calls
\* Two callers run get_next_candidate and update on the same
\* ExperimentAssistant with nothing to keep them apart: no statement of
\* either class takes a lock.  A step is one operation on a list or on
\* best_candidate (a test, a pop, a remove, an append, an assignment);
\* between two steps of a caller the other caller may take steps.
InCall(w) == workers[w].pc # "idle"

\* Every call appends at most one entry: a call starts only if the lists
\* have room for those of the calls in progress and its own.
Room ==
    Total(candidates_pending, candidates_working, candidates_finished)
        + Cardinality({w \in Workers : InCall(w)}) < MaxQueue

ConcurrentFrame ==
    UNCHANGED <<last, trace, minimization_problem, parameter_definitions,
                proposal, write_dir>>

\* the caller w goes to pc
Goto(w, pc) == workers' = [workers EXCEPT ![w].pc = pc]

\* the call of w ends: it returns ret, or raises
Finish(w, ret, raised) ==
    workers' = [workers EXCEPT ![w].pc = "idle", ![w].ret = ret,
                               ![w].raised = raised]

\* The caller w starts the call op(candidate, status) at pc.  The call
\* overlaps every call that is in progress, and those overlap it.
Start(w, op, candidate, status, pc) ==
    workers' =
        [v \in Workers |->
            IF v = w
            THEN [Idle EXCEPT !.pc = pc, !.op = op, !.status = status,
                              !.cand = candidate,
                              !.overlap = \E u \in Workers \ {w} : InCall(u),
                              !.calls = workers[w].calls + 1]
            ELSE IF InCall(v)
            THEN [workers[v] EXCEPT !.overlap = TRUE]
            ELSE workers[v]]

\* w calls get_next_candidate().
StartGetNext(w) ==
    /\ ~InCall(w)
    /\ workers[w].calls < MaxCalls
    /\ Room
    /\ Start(w, "get_next_candidate", None, "none", "gn_test")
    /\ ConcurrentFrame
    /\ UNCHANGED <<candidates_pending, candidates_working,
                   candidates_finished, best_candidate, result>>

\* w calls update(candidate, status) with a Candidate and a status of
\* AVAILABLE_STATUS; for "finished" the candidate carries the result res.
StartUpdate(w, candidate, status, res) ==
    /\ ~InCall(w)
    /\ workers[w].calls < MaxCalls
    /\ Room
    /\ IF status = "finished"
       THEN /\ Carries(candidate, res)
            /\ \A u \in Workers \ {w} :
                   (InCall(u) /\ workers[u].status = "finished"
                    /\ workers[u].cand = candidate) => res = result[candidate]
       ELSE res = None /\ UNCHANGED result
    /\ Start(w, "update", candidate, status,
             CASE status = "finished" -> "fin_test_pending"
               [] status = "pausing" -> "pau_test"
               [] status = "working" -> "wrk_test")
    /\ ConcurrentFrame
    /\ UNCHANGED <<candidates_pending, candidates_working,
                   candidates_finished, best_candidate>>

\* get_next_candidate: "if not self._experiment.candidates_pending"
GnTest(w) ==
    /\ workers[w].pc = "gn_test"
    /\ Goto(w, IF candidates_pending = <<>> THEN "gn_ask" ELSE "gn_pop")
    /\ ConcurrentFrame
    /\ UNCHANGED <<candidates_pending, candidates_working,
                   candidates_finished, best_candidate, result>>

\* A Candidate the optimizer creates is in no list and held by no caller.
FreshConcurrent(c) ==
    /\ Fresh(c)
    /\ \A u \in Workers : InCall(u) => workers[u].cand # c

\* get_next_candidate: the optimizer is asked for one candidate
GnAsk(w, answer, c) ==
    /\ workers[w].pc = "gn_ask"
    /\ IF answer = "one"
       THEN /\ FreshConcurrent(c)
            /\ workers' = [workers EXCEPT ![w].pc = "wrk_test", ![w].cand = c]
       ELSE Finish(w, None, FALSE)
    /\ ConcurrentFrame
    /\ UNCHANGED <<candidates_pending, candidates_working,
                   candidates_finished, best_candidate, result>>

\* get_next_candidate: candidates_pending.pop(), IndexError on an empty list
GnPop(w) ==
    /\ workers[w].pc = "gn_pop"
    /\ IF candidates_pending = <<>>
       THEN /\ Finish(w, None, TRUE)
            /\ UNCHANGED candidates_pending
       ELSE /\ candidates_pending' = PopRest(candidates_pending)
            /\ workers' = [workers EXCEPT
                              ![w].pc = "wrk_test",
                              ![w].cand = PopValue(candidates_pending),
                              ![w].popped = TRUE]
    /\ ConcurrentFrame
    /\ UNCHANGED <<candidates_working, candidates_finished, best_candidate,
                   result>>

\* add_working: "if candidate in self.candidates_pending"
WrkTest(w) ==
    /\ workers[w].pc = "wrk_test"
    /\ Goto(w, IF In(workers[w].cand, candidates_pending) THEN "wrk_remove"
                                                          ELSE "wrk_append")
    /\ ConcurrentFrame
    /\ UNCHANGED <<candidates_pending, candidates_working,
                   candidates_finished, best_candidate, result>>

\* add_working: candidates_pending.remove(candidate), ValueError if it is
\* no longer there
WrkRemove(w) ==
    /\ workers[w].pc = "wrk_remove"
    /\ IF In(workers[w].cand, candidates_pending)
       THEN /\ candidates_pending'
                   = ListRemove(candidates_pending, workers[w].cand)
            /\ Goto(w, "wrk_append")
       ELSE /\ Finish(w, None, TRUE)
            /\ UNCHANGED candidates_pending
    /\ ConcurrentFrame
    /\ UNCHANGED <<candidates_working, candidates_finished, best_candidate,
                   result>>

\* add_working: candidates_working.append(candidate); the call returns
WrkAppend(w) ==
    /\ workers[w].pc = "wrk_append"
    /\ candidates_working' = Append(candidates_working, workers[w].cand)
    /\ Finish(w, IF workers[w].op = "get_next_candidate" THEN workers[w].cand
                                                         ELSE None, FALSE)
    /\ ConcurrentFrame
    /\ UNCHANGED <<candidates_pending, candidates_finished, best_candidate,
                   result>>

\* add_pausing: "if candidate in self.candidates_working"
PauTest(w) ==
    /\ workers[w].pc = "pau_test"
    /\ Goto(w, IF In(workers[w].cand, candidates_working) THEN "pau_remove"
                                                          ELSE "pau_append")
    /\ ConcurrentFrame
    /\ UNCHANGED <<candidates_pending, candidates_working,
                   candidates_finished, best_candidate, result>>

\* add_pausing: candidates_working.remove(candidate)
PauRemove(w) ==
    /\ workers[w].pc = "pau_remove"
    /\ IF In(workers[w].cand, candidates_working)
       THEN /\ candidates_working'
                   = ListRemove(candidates_working, workers[w].cand)
            /\ Goto(w, "pau_append")
       ELSE /\ Finish(w, None, TRUE)
            /\ UNCHANGED candidates_working
    /\ ConcurrentFrame
    /\ UNCHANGED <<candidates_pending, candidates_finished, best_candidate,
                   result>>

\* add_pausing: candidates_pending.append(candidate); the call returns
PauAppend(w) ==
    /\ workers[w].pc = "pau_append"
    /\ candidates_pending' = Append(candidates_pending, workers[w].cand)
    /\ Finish(w, None, FALSE)
    /\ ConcurrentFrame
    /\ UNCHANGED <<candidates_working, candidates_finished, best_candidate,
                   result>>

\* add_finished: "if candidate in self.candidates_pending"
FinTestPending(w) ==
    /\ workers[w].pc = "fin_test_pending"
    /\ Goto(w, IF In(workers[w].cand, candidates_pending)
               THEN "fin_remove_pending" ELSE "fin_test_working")
    /\ ConcurrentFrame
    /\ UNCHANGED <<candidates_pending, candidates_working,
                   candidates_finished, best_candidate, result>>

\* add_finished: candidates_pending.remove(candidate)
FinRemovePending(w) ==
    /\ workers[w].pc = "fin_remove_pending"
    /\ IF In(workers[w].cand, candidates_pending)
       THEN /\ candidates_pending'
                   = ListRemove(candidates_pending, workers[w].cand)
            /\ Goto(w, "fin_test_working")
       ELSE /\ Finish(w, None, TRUE)
            /\ UNCHANGED candidates_pending
    /\ ConcurrentFrame
    /\ UNCHANGED <<candidates_working, candidates_finished, best_candidate,
                   result>>

\* add_finished: "if candidate in self.candidates_working"
FinTestWorking(w) ==
    /\ workers[w].pc = "fin_test_working"
    /\ Goto(w, IF In(workers[w].cand, candidates_working)
               THEN "fin_remove_working" ELSE "fin_append")
    /\ ConcurrentFrame
    /\ UNCHANGED <<candidates_pending, candidates_working,
                   candidates_finished, best_candidate, result>>

\* add_finished: candidates_working.remove(candidate)
FinRemoveWorking(w) ==
    /\ workers[w].pc = "fin_remove_working"
    /\ IF In(workers[w].cand, candidates_working)
       THEN /\ candidates_working'
                   = ListRemove(candidates_working, workers[w].cand)
            /\ Goto(w, "fin_append")
       ELSE /\ Finish(w, None, TRUE)
            /\ UNCHANGED candidates_working
    /\ ConcurrentFrame
    /\ UNCHANGED <<candidates_pending, candidates_finished, best_candidate,
                   result>>

\* add_finished: candidates_finished.append(candidate)
FinAppend(w) ==
    /\ workers[w].pc = "fin_append"
    /\ candidates_finished' = Append(candidates_finished, workers[w].cand)
    /\ Goto(w, "fin_test_none")
    /\ ConcurrentFrame
    /\ UNCHANGED <<candidates_pending, candidates_working, best_candidate,
                   result>>

\* add_finished: "self.best_candidate is None or ..."
FinTestNone(w) ==
    /\ workers[w].pc = "fin_test_none"
    /\ Goto(w, IF best_candidate = None THEN "fin_set_best"
                                        ELSE "fin_test_better")
    /\ ConcurrentFrame
    /\ UNCHANGED <<candidates_pending, candidates_working,
                   candidates_finished, best_candidate, result>>

\* add_finished: "... or self.better_cand(candidate, self.best_candidate)"
FinTestBetter(w) ==
    /\ workers[w].pc = "fin_test_better"
    /\ Goto(w, IF better_cand(result, workers[w].cand, best_candidate)
               THEN "fin_set_best" ELSE "retrain")
    /\ ConcurrentFrame
    /\ UNCHANGED <<candidates_pending, candidates_working,
                   candidates_finished, best_candidate, result>>

\* add_finished: self.best_candidate = candidate
FinSetBest(w) ==
    /\ workers[w].pc = "fin_set_best"
    /\ best_candidate' = workers[w].cand
    /\ Goto(w, "retrain")
    /\ ConcurrentFrame
    /\ UNCHANGED <<candidates_pending, candidates_working,
                   candidates_finished, result>>

\* update: self._optimizer.update(self._experiment); the call returns
Retrain(w) ==
    /\ workers[w].pc = "retrain"
    /\ Finish(w, None, FALSE)
    /\ ConcurrentFrame
    /\ UNCHANGED <<candidates_pending, candidates_working,
                   candidates_finished, best_candidate, result>>

NextConcurrent ==
    \/ \E w \in Workers : StartGetNext(w)
    \/ \E w \in Workers, c \in Cands, status \in AVAILABLE_STATUS,
          r \in ResultArgs : StartUpdate(w, c, status, r)
    \/ \E w \in Workers : GnTest(w)
    \/ \E w \in Workers, answer \in OptimizerAnswers, c \in Cands :
          GnAsk(w, answer, c)
    \/ \E w \in Workers : GnPop(w)
    \/ \E w \in Workers : WrkTest(w)
    \/ \E w \in Workers : WrkRemove(w)
    \/ \E w \in Workers : WrkAppend(w)
    \/ \E w \in Workers : PauTest(w)
    \/ \E w \in Workers : PauRemove(w)
    \/ \E w \in Workers : PauAppend(w)
    \/ \E w \in Workers : FinTestPending(w)
    \/ \E w \in Workers : FinRemovePending(w)
    \/ \E w \in Workers : FinTestWorking(w)
    \/ \E w \in Workers : FinRemoveWorking(w)
    \/ \E w \in Workers : FinAppend(w)
    \/ \E w \in Workers : FinTestNone(w)
    \/ \E w \in Workers : FinTestBetter(w)
    \/ \E w \in Workers : FinSetBest(w)
    \/ \E w \in Workers : Retrain(w)

SpecConcurrent == Init /\ [][NextConcurrent]_vars

\* ------------------------------------------------ acquisition functions
\* Floats.  Results and surrogate means are whole numbers; acquisition
\* values, which are products with the normal distribution's cdf and pdf,
\* are counted in hundredths.  Inf is float("inf"), NaN is nan.
Inf == 100000
NaN == 0 - 200000

\* x < y on floats: every comparison with nan is false
Lt(x, y) == x # NaN /\ y # NaN /\ x < y

\* x + y and -x on floats
Plus(x, y) == IF x = NaN \/ y = NaN THEN NaN ELSE x + y
Neg(x) == IF x = NaN THEN NaN ELSE 0 - x

\* variance ** 0.5, of a variance that is a square
Sqrt(variance) == CHOOSE r \in 0..variance : r * r = variance

\* x / y of numpy floats, y being 0 or 1: a division by zero gives inf,
\* -inf or nan (and a warning), never an exception.
Div(x, y) ==
    IF y # 0 THEN x \div y
    ELSE IF x > 0 THEN Inf ELSE IF x < 0 THEN 0 - Inf ELSE NaN

\* scipy.stats.norm().cdf(z) and .pdf(z), in hundredths, z a whole number,
\* inf, -inf or nan.
Cdf(z) ==
    IF z = NaN THEN NaN
    ELSE IF z <= 0 - 3 THEN 0
    ELSE IF z >= 3 THEN 100
    ELSE CASE z = 0 - 2 -> 2 [] z = 0 - 1 -> 16 [] z = 0 -> 50
           [] z = 1 -> 84 [] z = 2 -> 98

Pdf(z) ==
    IF z = NaN THEN NaN
    ELSE IF z <= 0 - 3 \/ z >= 3 THEN 0
    ELSE CASE z = 0 - 2 -> 5 [] z = 0 - 1 -> 24 [] z = 0 -> 40
           [] z = 1 -> 24 [] z = 2 -> 5

\* What the surrogate answers at a point: gp.predict gives a mean and a
\* variance, gp.predictive_gradients the gradient of each along every
\* parameter.
Means == 0..2
Variances == {0, 1}
GradientMeans == {0 - 1, 1}
GradientVariances == {0, 2}
Predictions ==
    [mean : Means, variance : Variances,
     gradient_mean : [ParamNames -> GradientMeans],
     gradient_variance : [ParamNames -> GradientVariances]]

\* the values of params["exploitation_tradeoff"]
Tradeoffs == {0, 1}

\* What an evaluation gives: a value and a gradient, or an exception.
Evaluated(value, gradient) ==
    [raised |-> "none", value |-> value, gradient |-> gradient]
EvaluateRaises(error) == [raised |-> error, value |-> 0, gradient |-> 0]

\* experiment.best_candidate.result, read by an evaluation: it raises
\* AttributeError while best_candidate is None.
XBestRaises == best_candidate = None
XBest == result[best_candidate]

\* _evaluate_vector without the test of std_dev.
ExpectedImprovement_evaluate_vector_NoTest(gp, tradeoff) ==
    IF XBestRaises THEN EvaluateRaises("AttributeError")
    ELSE IF XBest = None THEN EvaluateRaises("TypeError")
    ELSE LET std_dev == Sqrt(gp.variance)
             sign == IF minimization_problem THEN 1 ELSE 0 - 1
             z_numerator == sign * (XBest - gp.mean + tradeoff)
             z == Div(z_numerator, std_dev)
         IN  Evaluated(Plus(z_numerator * Cdf(z), std_dev * Pdf(z)), 0)

\* ExpectedImprovement._evaluate_vector at a point where the surrogate
\* answers gp.
ExpectedImprovement_evaluate_vector(gp, tradeoff) ==
    IF XBestRaises THEN EvaluateRaises("AttributeError")
    ELSE IF XBest = None THEN EvaluateRaises("TypeError")
    ELSE LET std_dev == Sqrt(gp.variance)
             sign == IF minimization_problem THEN 1 ELSE 0 - 1
             z_numerator == sign * (XBest - gp.mean + tradeoff)
         IN  IF std_dev # 0
             THEN LET z == Div(z_numerator, std_dev)
                      cdf_z == Cdf(z)
                      pdf_z == Pdf(z)
                      ei_value == z_numerator * cdf_z + std_dev * pdf_z
                      ei_gradient ==
                          [pn \in ParamNames |->
                              (ei_value * gp.gradient_variance[pn])
                                      \div (2 * gp.variance)
                              + (0 - 1) * sign * gp.gradient_mean[pn] * cdf_z
                              + ((0 - 1) * gp.gradient_variance[pn] * cdf_z
                                     * z) \div (2 * std_dev)]
                  IN  Evaluated(ei_value, ei_gradient)
             ELSE Evaluated(0, 0)

\* ProbabilityOfImprovement.evaluate at a point where the surrogate answers
\* gp.
ProbabilityOfImprovement_evaluate(gp) ==
    IF XBestRaises THEN EvaluateRaises("AttributeError")
    ELSE IF XBest = None THEN EvaluateRaises("TypeError")
    ELSE LET stdv == Sqrt(gp.variance)
             z == Div(XBest - gp.mean, stdv)
             cdf == Cdf(z)
         IN  Evaluated(IF minimization_problem \/ cdf = NaN
                       THEN cdf ELSE 100 - cdf, 0)

\* evaluate of the acquisition function acq
evaluate(acq, gp, tradeoff) ==
    IF acq = "EI" THEN ExpectedImprovement_evaluate_vector(gp, tradeoff)
    ELSE ProbabilityOfImprovement_evaluate(gp)

\* _compute_minimizing_evaluate returning the value of evaluate as it is.
compute_minimizing_evaluate_NotNegated(acq, gp, tradeoff) ==
    evaluate(acq, gp, tradeoff)

\* _compute_minimizing_evaluate of ExpectedImprovement and of
\* ProbabilityOfImprovement: the value of evaluate, negated; of any other
\* acquisition function, the value of evaluate.
compute_minimizing_evaluate(acq, gp, tradeoff) ==
    LET e == evaluate(acq, gp, tradeoff)
    IN  IF e.raised # "none" \/ acq \notin {"EI", "PI"} THEN e
        ELSE Evaluated(Neg(e.value), 0)

\* An experiment with no finished candidate, or with one, which is then
\* the best.
InitEvaluate ==
    /\ candidates_pending = <<>>
    /\ candidates_working = <<>>
    /\ \/ /\ candidates_finished = <<>>
          /\ best_candidate = None
          /\ result = [c \in Cands |-> None]
       \/ /\ candidates_finished = <<1>>
          /\ best_candidate = 1
          /\ \E r \in ResultArgs :
                 result = [c \in Cands |-> IF c = 1 THEN r ELSE None]
    /\ minimization_problem \in BOOLEAN
    /\ last = Call("init", None, None, FALSE, None)
    /\ trace = <<>>
    /\ workers = [w \in Workers |-> Idle]
    /\ parameter_definitions = [pn \in ParamNames |-> "NumericParamDef"]
    /\ proposal = NoProposals
    /\ write_dir = NoDir

\* A call of ExpectedImprovement._evaluate_vector.
CallEvaluateVector(gp, tradeoff) ==
    /\ LET e == ExpectedImprovement_evaluate_vector(gp, tradeoff)
       IN  last' = Call("_evaluate_vector", gp, tradeoff,
                        e.raised # "none", e)
    /\ trace' = <<>>
    /\ RestUnchanged
    /\ UNCHANGED <<candidates_pending, candidates_working,
                   candidates_finished, best_candidate, result,
                   minimization_problem>>

NextEvaluate ==
    \E gp \in Predictions, tradeoff \in Tradeoffs :
        CallEvaluateVector(gp, tradeoff)

SpecEvaluate == InitEvaluate /\ [][NextEvaluate]_vars

\* ------------------------------------------------------ compute_proposals
\* A point is a dict from parameter names to values.  random.random()
\* gives the values of a sample, every call another value: the value drawn
\* for the parameter pn of the sample i is named by its rank among the
\* draws.
RandomPoint(i) == [pn \in ParamNames |-> i * NumParams + pn]

\* sorted(names), names a set of parameter names
RECURSIVE Sorted(_)
Sorted(names) ==
    IF names = {} THEN <<>>
    ELSE LET least == CHOOSE n \in names : \A m \in names : n <= m
         IN  <<least>> \o Sorted(names \ {least})

\* the names in a list of names
Names(param_names) == {param_names[i] : i \in 1..Len(param_names)}

\* the place of pn in the sorted names
Place(sorted, pn) == CHOOSE i \in 1..Len(sorted) : sorted[i] = pn

\* _translate_dict_vector(x)
translate_dict_vector(x) ==
    LET param_names == Sorted(DOMAIN x)
    IN  [i \in 1..Len(param_names) |-> x[param_names[i]]]

\* _translate_vector_dict taking the names in the order they are given in
translate_vector_dict_AsGiven(x_vector, param_names) ==
    [pn \in Names(param_names) |->
        x_vector[CHOOSE i \in 1..Len(param_names) : param_names[i] = pn]]

\* _translate_vector_dict(x_vector, param_names), param_names in any order
translate_vector_dict(x_vector, param_names) ==
    LET param_names_sorted == Sorted(Names(param_names))
    IN  [pn \in Names(param_names) |->
            x_vector[Place(param_names_sorted, pn)]]

\* the orders in which parameter_definitions.keys() may list the names
KeyOrders ==
    {order \in [1..NumParams -> ParamNames] : Names(order) = ParamNames}

\* the kinds of parameter definition
ParamKinds == {"NumericParamDef", "PositionParamDef", "NominalParamDef"}

\* every kind of parameter definition taken as one to sample
Supported_AnyKind(pdef) == TRUE

\* isinstance(pdef, NumericParamDef) or isinstance(pdef, PositionParamDef)
Supported(pdef) == pdef \in {"NumericParamDef", "PositionParamDef"}

\* sum_acq after the score of one more sample
AppendSum(sum_acq, score) ==
    IF Len(sum_acq) > 0
    THEN Append(sum_acq, Plus(score, sum_acq[Len(sum_acq)]))
    ELSE Append(sum_acq, score)

\* sum_acq after the scores of all samples
RECURSIVE SumAcq(_)
SumAcq(scores) ==
    IF scores = <<>> THEN <<>>
    ELSE AppendSum(SumAcq(SubSeq(scores, 1, Len(scores) - 1)),
                   scores[Len(scores)])

\* random.uniform(0, total): a value between 0 and total.  The values kept
\* are the two ends and, around every cumulative sum, the sum and its two
\* neighbours: every value between the ends compares with the sums as one
\* of these does.
Draws(sum_acq) ==
    LET total == sum_acq[Len(sum_acq)]
        lo == IF total < 0 THEN total ELSE 0
        hi == IF total < 0 THEN 0 ELSE total
        near == UNION {{sum_acq[i] - 1, sum_acq[i], sum_acq[i] + 1} :
                           i \in 1..Len(sum_acq)}
    IN  IF total = NaN THEN {NaN}
        ELSE {d \in near \cup {0, total} : lo <= d /\ d <= hi}

\* "while sum_rand < sum_acq[next_prop_idx]: next_prop_idx += 1", indices
\* counted from 0 as in the source: the index the walk stops at, or
\* len(sum_acq) when it reads past the end of sum_acq (IndexError).
RECURSIVE Walk(_, _, _)
Walk(sum_acq, sum_rand, next_prop_idx) ==
    IF next_prop_idx >= Len(sum_acq) THEN next_prop_idx
    ELSE IF Lt(sum_rand, sum_acq[next_prop_idx + 1])
    THEN Walk(sum_acq, sum_rand, next_prop_idx + 1)
    ELSE next_prop_idx

\* best_param_idx and best_score before any sample
NoBest == [idx |-> 0, score |-> Inf]

\* best_param_idx and best_score after the sample i of that score
BestStep(best, i, score) ==
    IF Lt(score, best.score) THEN [idx |-> i, score |-> score] ELSE best

\* best_param_idx and best_score after the samples of these scores
RECURSIVE BestAfter(_)
BestAfter(scores) ==
    IF scores = <<>> THEN NoBest
    ELSE BestStep(BestAfter(SubSeq(scores, 1, Len(scores) - 1)),
                  Len(scores) - 1, scores[Len(scores)])

\* compute_proposals clearing the best candidate of the experiment
ExperimentUntouched_DropsBest ==
    /\ best_candidate' = None
    /\ UNCHANGED <<candidates_pending, candidates_working,
                   candidates_finished, result, minimization_problem,
                   parameter_definitions>>

\* compute_proposals and evaluate assign nothing of the experiment
ExperimentUntouched ==
    UNCHANGED <<candidates_pending, candidates_working, candidates_finished,
                best_candidate, result, minimization_problem,
                parameter_definitions>>

ProposalFrame ==
    ExperimentUntouched /\ UNCHANGED <<last, trace, workers, write_dir>>

\* compute_proposals raises error
ProposalsRaise(error) ==
    proposal' = [proposal EXCEPT !.pc = "done", !.raised = error]

\* compute_proposals(gp, experiment, number_proposals, random_steps) is
\* called on an acquisition function acq with params["optimization"] and
\* params["exploitation_tradeoff"].
StartProposals(acq, optimization, tradeoff, number_proposals, random_steps) ==
    /\ proposal.pc = "idle"
    /\ proposal' =
           [NoProposals EXCEPT
               !.pc = "sample", !.acq = acq, !.optimization = optimization,
               !.tradeoff = tradeoff,
               !.number_proposals = number_proposals,
               !.random_steps_given = random_steps,
               !.random_steps = IF random_steps > number_proposals
                                THEN random_steps ELSE number_proposals,
               !.best_param_idx = NoBest.idx, !.best_score = NoBest.score]
    /\ ProposalFrame

\* One round of "for i in range(random_steps)": the sample is drawn and
\* scored, the surrogate answering gp at it.
Sample(gp) ==
    /\ proposal.pc = "sample"
    /\ Len(proposal.evaluated_params) < proposal.random_steps
    /\ LET i == Len(proposal.evaluated_params)
           e == compute_minimizing_evaluate(proposal.acq, gp,
                                            proposal.tradeoff)
           score == e.value
           value == evaluate(proposal.acq, gp, proposal.tradeoff).value
           best == [idx |-> proposal.best_param_idx,
                    score |-> proposal.best_score]
       IN  IF \E pn \in ParamNames : ~Supported(parameter_definitions[pn])
           THEN ProposalsRaise("TypeError")
           ELSE IF e.raised # "none"
           THEN ProposalsRaise(e.raised)
           ELSE proposal' =
                    [proposal EXCEPT
                        !.best_param_idx = BestStep(best, i, score).idx,
                        !.best_score = BestStep(best, i, score).score,
                        !.evaluated_params = Append(@, RandomPoint(i)),
                        !.evaluated_values = Append(@, value),
                        !.evaluated_acq_scores = Append(@, score),
                        !.sum_acq = AppendSum(@, score),
                        !.x_bests = Append(@, XBest)]
    /\ ProposalFrame

\* proposals.append(evaluated_params[best_param_idx])
First ==
    /\ proposal.pc = "sample"
    /\ Len(proposal.evaluated_params) = proposal.random_steps
    /\ proposal' =
           [proposal EXCEPT
               !.pc = "walk",
               !.proposals =
                   <<proposal.evaluated_params[proposal.best_param_idx + 1]>>]
    /\ ProposalFrame

\* One round of "while len(proposals) < number_proposals".
NextProposal ==
    /\ proposal.pc = "walk"
    /\ Len(proposal.proposals) < proposal.number_proposals
    /\ \E sum_rand \in Draws(proposal.sum_acq) :
           LET next_prop_idx == Walk(proposal.sum_acq, sum_rand, 0)
           IN  IF next_prop_idx >= Len(proposal.sum_acq)
               THEN ProposalsRaise("IndexError")
               ELSE proposal' =
                        [proposal EXCEPT
                            !.proposals =
                                Append(@, proposal.evaluated_params
                                              [next_prop_idx + 1]),
                            !.sum_rands = Append(@, sum_rand)]
    /\ ProposalFrame

\* AcquisitionFunction.compute_proposals returns proposals: to the caller,
\* or to ExpectedImprovement.compute_proposals, which returns them as they
\* are when params["optimization"] is "random".
ReturnRandom ==
    /\ proposal.pc = "walk"
    /\ Len(proposal.proposals) = proposal.number_proposals
    /\ proposal' =
           [proposal EXCEPT
               !.pc = IF proposal.acq = "EI"
                         /\ proposal.optimization # "random"
                      THEN "minimize" ELSE "done",
               !.random_proposals = proposal.proposals]
    /\ ProposalFrame

\* the refined point put in the place of the first proposal
Refined_ReplacesFirst(random_proposals, x_min_dict) ==
    <<x_min_dict>> \o SubSeq(random_proposals, 2, Len(random_proposals))

\* "del random_proposals[-1]" and "random_proposals.insert(0, x_min_dict)"
Refined(random_proposals, x_min_dict) ==
    <<x_min_dict>>
        \o SubSeq(random_proposals, 1, Len(random_proposals) - 1)

\* where scipy.optimize.minimize ends from initial_guess: there, or at
\* another point if it moved
Minimum(initial_guess, moved) ==
    IF moved THEN [i \in 1..Len(initial_guess) |-> 0 - i]
             ELSE initial_guess

\* the refined point put first whatever result.success is
Minimize_AlwaysRefines(success, moved, param_names) ==
    /\ proposal.pc = "minimize"
    /\ LET initial_guess ==
               translate_dict_vector(proposal.random_proposals[1])
           x_min == Minimum(initial_guess, moved)
       IN  proposal' =
           [proposal EXCEPT
               !.pc = "done",
               !.success = success,
               !.x_min = x_min,
               !.x_bests = Append(@, XBest),
               !.proposals =
                   Refined(@, translate_vector_dict(x_min, param_names))]
    /\ ProposalFrame

\* scipy.optimize.minimize has run from the first proposal, evaluating the
\* acquisition function there, and ends with result.success = success;
\* param_names is parameter_definitions.keys().
Minimize(success, moved, param_names) ==
    /\ proposal.pc = "minimize"
    /\ LET initial_guess ==
               translate_dict_vector(proposal.random_proposals[1])
           x_min == Minimum(initial_guess, moved)
       IN  proposal' =
           [proposal EXCEPT
               !.pc = "done",
               !.success = success,
               !.x_min = x_min,
               !.x_bests = Append(@, XBest),
               !.proposals =
                   IF ~success THEN @
                   ELSE Refined(@, translate_vector_dict(x_min,
                                                         param_names))]
    /\ ProposalFrame

\* the prediction of mean m and variance v (the gradients play no part in
\* compute_proposals)
Prediction(m, v) ==
    [mean |-> m, variance |-> v,
     gradient_mean |-> [pn \in ParamNames |-> 1],
     gradient_variance |-> [pn \in ParamNames |-> 0]]

\* the acquisition functions and their params["optimization"]
Configurations ==
    {<<"EI", "random">>, <<"EI", "bfgs">>, <<"PI", "random">>}

\* An experiment with parameter definitions of the kinds pdefs and with no
\* finished candidate, or with one, which is then the best.
InitWith(pdefs) ==
    /\ candidates_pending = <<>>
    /\ candidates_working = <<>>
    /\ \/ /\ candidates_finished = <<>>
          /\ best_candidate = None
          /\ result = [c \in Cands |-> None]
       \/ /\ candidates_finished = <<1>>
          /\ best_candidate = 1
          /\ \E r \in ResultArgs :
                 result = [c \in Cands |-> IF c = 1 THEN r ELSE None]
    /\ minimization_problem \in BOOLEAN
    /\ last = Call("init", None, None, FALSE, None)
    /\ trace = <<>>
    /\ workers = [w \in Workers |-> Idle]
    /\ parameter_definitions = pdefs
    /\ proposal = NoProposals
    /\ write_dir = NoDir

InitProposals == InitWith([pn \in ParamNames |-> "NumericParamDef"])

NextProposals ==
    \/ \E c \in Configurations, number_proposals \in 1..MaxProposals,
          random_steps \in 0..MaxProposals :
           StartProposals(c[1], c[2], 0, number_proposals, random_steps)
    \/ \E m \in Means, v \in Variances : Sample(Prediction(m, v))
    \/ First
    \/ NextProposal
    \/ ReturnRandom
    \/ \E success \in BOOLEAN, moved \in BOOLEAN, param_names \in KeyOrders :
           Minimize(success, moved, param_names)

SpecProposals == InitProposals /\ [][NextProposals]_vars

\* An experiment with parameter definitions of every kind.
InitKinds == \E pdefs \in [ParamNames -> ParamKinds] : InitWith(pdefs)

NextKinds ==
    \/ \E c \in Configurations, number_proposals \in 1..MaxProposals :
           StartProposals(c[1], c[2], 0, number_proposals, 0)
    \/ \E v \in Variances : Sample(Prediction(1, v))
    \/ First
    \/ NextProposal
    \/ ReturnRandom
    \/ \E success \in BOOLEAN, param_names \in KeyOrders :
           Minimize(success, TRUE, param_names)

SpecKinds == InitKinds /\ [][NextKinds]_vars

\* The scores _compute_minimizing_evaluate may give when it is not
\* overridden: the values of evaluate, of either sign.
WalkScores == (0 - 2)..2

\* compute_proposals after its sampling loop, for samples of any scores.
InitWalk ==
    /\ candidates_pending = <<>>
    /\ candidates_working = <<>>
    /\ candidates_finished = <<1>>
    /\ best_candidate = 1
    /\ result = [c \in Cands |-> IF c = 1 THEN 1 ELSE None]
    /\ minimization_problem = TRUE
    /\ last = Call("init", None, None, FALSE, None)
    /\ trace = <<>>
    /\ workers = [w \in Workers |-> Idle]
    /\ parameter_definitions = [pn \in ParamNames |-> "NumericParamDef"]
    /\ write_dir = NoDir
    /\ \E number_proposals \in 2..MaxProposals,
          random_steps \in 2..(MaxProposals + 1) :
           /\ random_steps >= number_proposals
           /\ \E scores \in [1..random_steps -> WalkScores] :
                  proposal =
                      [NoProposals EXCEPT
                          !.pc = "sample", !.acq = "other",
                          !.optimization = "random",
                          !.number_proposals = number_proposals,
                          !.random_steps_given = random_steps,
                          !.random_steps = random_steps,
                          !.evaluated_params =
                              [i \in 1..random_steps |-> RandomPoint(i - 1)],
                          !.evaluated_values = scores,
                          !.evaluated_acq_scores = scores,
                          !.sum_acq = SumAcq(scores),
                          !.best_param_idx = BestAfter(scores).idx,
                          !.best_score = BestAfter(scores).score]

NextWalk == First \/ NextProposal \/ ReturnRandom

SpecWalk == InitWalk /\ [][NextWalk]_vars

\* compute_proposals of ExpectedImprovement by random search, while
\* candidates finish.
NextSnapshot ==
    \/ \E c \in Cands, r \in Results : AddFinished(c, r)
    \/ StartProposals("EI", "random", 0, 1, MaxProposals)
    \/ \E v \in Variances : Sample(Prediction(1, v))
    \/ First
    \/ ReturnRandom

SpecSnapshot == Init /\ [][NextSnapshot]_vars

\* The points of the codec: dictionaries over some of the names, of values
\* that tell the names apart.
PointNames == 1..(NumParams + 1)
PointValues == 0..2
Points ==
    UNION {[names -> PointValues] : names \in (SUBSET PointNames) \ {{}}}

\* the orders in which the names of a set may be listed
OrdersOf(names) ==
    {order \in [1..Cardinality(names) -> names] : Names(order) = names}

\* A call of _translate_dict_vector(x).
CallTranslateDictVector(x) ==
    /\ last' = Call("_translate_dict_vector", x, None, FALSE,
                    translate_dict_vector(x))
    /\ trace' = <<>>
    /\ RestUnchanged
    /\ UNCHANGED <<candidates_pending, candidates_working,
                   candidates_finished, best_candidate, result,
                   minimization_problem>>

\* A call of _translate_vector_dict(x_vector, param_names) on the vector the
\* call before returned, param_names the keys of its dictionary in some
\* order.
CallTranslateVectorDict(param_names) ==
    /\ last.op = "_translate_dict_vector"
    /\ Names(param_names) = DOMAIN last.a
    /\ last' = Call("_translate_vector_dict", last.ret, param_names, FALSE,
                    translate_vector_dict(last.ret, param_names))
    /\ trace' = <<>>
    /\ RestUnchanged
    /\ UNCHANGED <<candidates_pending, candidates_working,
                   candidates_finished, best_candidate, result,
                   minimization_problem>>

NextCodec ==
    \/ \E x \in Points : CallTranslateDictVector(x)
    \/ \E names \in (SUBSET PointNames) \ {{}} :
           \E param_names \in OrdersOf(names) :
               CallTranslateVectorDict(param_names)

SpecCodec == Init /\ [][NextCodec]_vars

\* ================================================================ claims
\* The number of the three lists that hold c.
ListsHolding(c) ==
    (IF In(c, candidates_pending) THEN 1 ELSE 0)
    + (IF In(c, candidates_working) THEN 1 ELSE 0)
    + (IF In(c, candidates_finished) THEN 1 ELSE 0)

\* the call that produced the state was add_finished, directly or through
\* update(candidate, "finished")
Finishing(call) ==
    \/ call.op = "add_finished" /\ ~call.raised
    \/ call.op = "update" /\ call.b = "finished"

\* C1: between calls of add_pending / add_working / add_pausing /
\* add_finished, every candidate is in at most one of the three lists (and
\* in exactly one once it has been added: no call takes a candidate out of
\* all of them).
C1_InOneList == \A c \in Cands : ListsHolding(c) <= 1

\* C2: best_candidate is None or a member of candidates_finished, and no
\* other member of candidates_finished is better_cand than best_candidate.
C2_BestIsBest ==
    /\ best_candidate = None \/ In(best_candidate, candidates_finished)
    /\ \A i \in 1..Len(candidates_finished) :
           candidates_finished[i] # best_candidate
               => ~better_cand(result, candidates_finished[i], best_candidate)

\* C2 witness: two finished candidates with different results, the best one
\* not the one finished last.
C2_Witness ==
    /\ Len(candidates_finished) >= 2
    /\ best_candidate # None
    /\ best_candidate # candidates_finished[Len(candidates_finished)]
    /\ result[best_candidate] # None
    /\ result[candidates_finished[Len(candidates_finished)]] # None
    /\ result[candidates_finished[Len(candidates_finished)]]
           # result[best_candidate]

\* some finished candidate has a result
SomeFinishedResult ==
    \E i \in 1..Len(candidates_finished) : result[candidates_finished[i]] # None

\* C3 as stated: best_candidate is None exactly when no finished candidate
\* has a result.
C3_NullIffNoResult == (best_candidate = None) <=> ~SomeFinishedResult

\* C3 as amended: best_candidate is None exactly when candidates_finished is
\* empty, and it has a result exactly when some finished candidate has one.
C3_NullIffNoneFinished ==
    /\ (best_candidate = None) <=> (candidates_finished = <<>>)
    /\ best_candidate # None
           => ((result[best_candidate] # None) <=> SomeFinishedResult)

\* C3 witness: candidates were finished, none of them with a result, and
\* best_candidate is one of them.
C3_Witness ==
    /\ Len(candidates_finished) >= 2
    /\ ~SomeFinishedResult
    /\ best_candidate # None

\* C4 as stated: after add_finished(c), best_candidate is c exactly when the
\* previous best_candidate was None or better_cand(c, previous) held, and is
\* the previous one otherwise.
C4_BestIsNewIffBetter ==
    [][Finishing(last')
        => LET c == last'.a
               promoted == best_candidate = None
                           \/ better_cand(result', c, best_candidate)
           IN  /\ (best_candidate' = c) <=> promoted
               /\ ~promoted => best_candidate' = best_candidate]_vars

\* C4 as amended: after add_finished(c), best_candidate is c exactly when
\* the previous best_candidate was None, or better_cand(c, previous) held,
\* or c was the previous best_candidate already; otherwise it is the
\* previous one.
C4_BestIsNewIffBetterOrSame ==
    [][Finishing(last')
        => LET c == last'.a
               promoted == best_candidate = None
                           \/ better_cand(result', c, best_candidate)
           IN  /\ (best_candidate' = c) <=> (promoted \/ c = best_candidate)
               /\ ~promoted => best_candidate' = best_candidate]_vars

\* C4 witness: add_finished(c) with a result equal to that of the best
\* candidate, another one, which stays.
C4_Witness ==
    /\ last.op = "add_finished"
    /\ best_candidate # None
    /\ best_candidate # last.a
    /\ result[last.a] # None
    /\ result[last.a] = result[best_candidate]

\* the call that produced the state is one of those that are not to touch
\* best_candidate
NotFinishing(call) ==
    \/ call.op \in {"add_pending", "add_working", "add_pausing",
                    "get_next_candidate"}
    \/ call.op = "update" /\ call.b \in {"pausing", "working"}

\* C5: add_pending, add_working, add_pausing, get_next_candidate and update
\* with status "pausing" or "working" leave best_candidate unchanged.
C5_OnlyFinishedChangesBest ==
    [][NotFinishing(last') => best_candidate' = best_candidate]_vars

\* C5 witness: the best candidate has been paused through update, and is
\* still the best candidate.
C5_Witness ==
    /\ last.op = "update" /\ last.b = "pausing"
    /\ best_candidate = last.a
    /\ In(best_candidate, candidates_pending)

\* C6: once best_candidate is not None it never becomes None again, and
\* every change of it installs a candidate that better_cand ranks strictly
\* better than the one replaced.
C6_OnlyPromoted ==
    [][best_candidate # None
        => /\ best_candidate' # None
           /\ best_candidate' # best_candidate
                  => /\ better_cand(result', best_candidate', best_candidate)
                     /\ ~better_cand(result', best_candidate, best_candidate')
      ]_vars

\* C6 witness: the candidate finished first had a result, so it was the
\* best candidate; another one has replaced it.
C6_Witness ==
    /\ Len(candidates_finished) >= 2
    /\ result[candidates_finished[1]] # None
    /\ best_candidate # candidates_finished[1]

\* C7: a candidate that is in candidates_finished stays there and is in
\* neither candidates_pending nor candidates_working after any later call.
C7_FinishedIsTerminal ==
    [][\A c \in Cands :
          In(c, candidates_finished)
              => /\ In(c, candidates_finished')
                 /\ ~In(c, candidates_pending')
                 /\ ~In(c, candidates_working')]_vars

\* C8: add_working(c) with c already in candidates_working raises nothing
\* and leaves c exactly once in candidates_working.
C8_AddWorkingNoDuplicate ==
    [][(last'.op = "add_working" /\ In(last'.a, candidates_working))
          => /\ ~last'.raised
             /\ Count(last'.a, candidates_working') = 1]_vars

\* C9: better_cand(A, None) is true for every candidate A that has a
\* result, and better_cand(None, B) is false for every B, None included.
C9_BetterCandNone ==
    (last.op = "better_cand" /\ ~last.raised)
        => /\ (last.a # None /\ result[last.a] # None /\ last.b = None)
                  => last.ret = TRUE
           /\ last.a = None => last.ret = FALSE

\* C9 witness: better_cand(A, None), A with a result, has returned True.
C9_Witness ==
    /\ last.op = "better_cand" /\ ~last.raised
    /\ last.a # None /\ last.b = None
    /\ result[last.a] # None
    /\ last.ret = TRUE

\* C10: for candidates A and B, better_cand(A, B) is false if A has no
\* result; if both have one it is A.result < B.result for a minimization
\* problem and A.result > B.result otherwise; and better_cand(A, B) and
\* better_cand(B, A) are never both true.
C10_BetterCandResults ==
    (last.op = "better_cand" /\ ~last.raised /\ last.a # None /\ last.b # None)
        => LET ra == result[last.a]
               rb == result[last.b]
           IN  /\ ra = None => last.ret = FALSE
               /\ (ra # None /\ rb # None)
                      => last.ret = (IF minimization_problem THEN ra < rb
                                                             ELSE ra > rb)
               /\ (ra # None /\ rb # None /\ ra = rb) => last.ret = FALSE
               /\ ~(last.ret /\ better_cand(result, last.b, last.a))

\* C10 witness: better_cand on two different candidates with equal results
\* has returned False.
C10_Witness ==
    /\ last.op = "better_cand" /\ ~last.raised
    /\ last.a # None /\ last.b # None /\ last.a # last.b
    /\ result[last.a] # None
    /\ result[last.a] = result[last.b]
    /\ last.ret = FALSE

\* the three lists and best_candidate are as they were
ExperimentUnchanged ==
    UNCHANGED <<candidates_pending, candidates_working, candidates_finished,
                best_candidate>>

\* C11: add_pending, add_working, add_pausing and add_finished called with
\* an argument that is not a Candidate raise and leave the three lists and
\* best_candidate as they were.
C11_NonCandidateRejected ==
    [][(last'.op \in {"add_pending", "add_working", "add_pausing",
                      "add_finished"}
        /\ ~isCandidate(last'.a))
          => last'.raised /\ ExperimentUnchanged]_vars

\* C11 witness: add_finished has raised on a non-Candidate, with candidates
\* in all three lists and a best candidate.
C11_Witness ==
    /\ last.op = "add_finished" /\ last.raised
    /\ ~isCandidate(last.a)
    /\ candidates_pending # <<>> /\ candidates_working # <<>>
    /\ candidates_finished # <<>> /\ best_candidate # None

\* how often the call named name occurs in the trace tr
Calls(tr, name) == Cardinality({i \in 1..Len(tr) : tr[i] = name})

\* C12: update called with a status outside AVAILABLE_STATUS or with a
\* non-Candidate raises, leaves the three lists and best_candidate as they
\* were, and does not call the optimizer's update.
C12_UpdateRejectsInvalid ==
    [][(last'.op = "update"
        /\ (last'.b \notin AVAILABLE_STATUS \/ ~isCandidate(last'.a)))
          => /\ last'.raised
             /\ ExperimentUnchanged
             /\ Calls(trace', "optimizer.update") = 0]_vars

\* C12 witness: update(c, "bogus") has raised for a Candidate c, with
\* candidates in all three lists.
C12_Witness ==
    /\ last.op = "update" /\ last.b = "bogus" /\ last.raised
    /\ isCandidate(last.a)
    /\ candidates_pending # <<>> /\ candidates_working # <<>>
    /\ candidates_finished # <<>>

\* C13: update(c, status) applies the Experiment transition that status
\* names: "finished" appends c to candidates_finished, "pausing" appends c
\* to candidates_pending, "working" appends c to candidates_working, the
\* latter two leaving candidates_finished alone; the optimizer's update is
\* called once for "finished", after add_finished, and never for the others.
C13_UpdateRoutes ==
    [][last'.op = "update"
        => LET c == last'.a IN
           /\ last'.b = "finished"
                 => /\ candidates_finished' = Append(candidates_finished, c)
                    /\ Len(candidates_pending') <= Len(candidates_pending)
                    /\ Len(candidates_working') <= Len(candidates_working)
                    /\ Calls(trace', "optimizer.update") = 1
                    /\ trace'[1] = "add_finished"
                    /\ trace'[2] = "optimizer.update"
           /\ last'.b = "pausing"
                 => /\ candidates_pending' = Append(candidates_pending, c)
                    /\ Len(candidates_working') <= Len(candidates_working)
                    /\ UNCHANGED <<candidates_finished, best_candidate>>
                    /\ trace'[1] = "add_pausing"
                    /\ Calls(trace', "optimizer.update") = 0
           /\ last'.b = "working"
                 => /\ candidates_working' = Append(candidates_working, c)
                    /\ Len(candidates_pending') <= Len(candidates_pending)
                    /\ UNCHANGED <<candidates_finished, best_candidate>>
                    /\ trace'[1] = "add_working"
                    /\ Calls(trace', "optimizer.update") = 0]_vars

\* C13 witness: update(c, "pausing") has moved c from candidates_working to
\* candidates_pending after a candidate was finished.
C13_Witness ==
    /\ last.op = "update" /\ last.b = "pausing"
    /\ trace = <<"add_pausing", "write_state">>
    /\ candidates_pending = <<last.a>>
    /\ candidates_working = <<>>
    /\ candidates_finished # <<>>

\* C14: when the optimizer's update raises in update(c, "finished"), the
\* error reaches the caller and the transition stays committed: c is in
\* candidates_finished, in neither candidates_pending nor
\* candidates_working, and best_candidate accounts for c.
C14_RetrainFailureKeepsFinished ==
    (last.op = "update" /\ last.b = "finished" /\ last.raised)
        => /\ In(last.a, candidates_finished)
           /\ ~In(last.a, candidates_pending)
           /\ ~In(last.a, candidates_working)
           /\ best_candidate # None
           /\ ~better_cand(result, last.a, best_candidate)

\* C15: with candidates_pending not empty, get_next_candidate returns a
\* candidate taken from candidates_pending, appends it to
\* candidates_working and does not query the optimizer; the optimizer is
\* queried only with candidates_pending empty.
C15_PendingFirst ==
    [][last'.op = "get_next_candidate"
        => LET ret == last'.ret IN
           /\ candidates_pending # <<>>
                 => /\ ~last'.raised
                    /\ In(ret, candidates_pending)
                    /\ Count(ret, candidates_pending')
                           < Count(ret, candidates_pending)
                    /\ candidates_working' = Append(candidates_working, ret)
                    /\ Calls(trace', "optimizer.get_next_candidates") = 0
           /\ Calls(trace', "optimizer.get_next_candidates") > 0
                 => candidates_pending = <<>>]_vars

\* C15 witness: get_next_candidate has handed out a pending candidate
\* without asking the optimizer, another candidate still pending.
C15_Witness ==
    /\ last.op = "get_next_candidate" /\ last.b = "not asked"
    /\ candidates_working = <<last.ret>>
    /\ candidates_pending # <<>>
    /\ ~In(last.ret, candidates_pending)

\* C16: with candidates_pending empty, get_next_candidate asks the
\* optimizer once; a candidate it answers is appended to
\* candidates_working and returned; if it answers None or an empty list,
\* get_next_candidate returns None, raises nothing and leaves the three
\* lists as they were.
C16_AsksOptimizerWhenEmpty ==
    [][(last'.op = "get_next_candidate" /\ candidates_pending = <<>>)
        => /\ Calls(trace', "optimizer.get_next_candidates") = 1
           /\ ~last'.raised
           /\ last'.b = "one"
                 => /\ isCandidate(last'.ret)
                    /\ candidates_working'
                           = Append(candidates_working, last'.ret)
                    /\ UNCHANGED <<candidates_pending, candidates_finished>>
           /\ last'.b \in {"none", "empty"}
                 => /\ last'.ret = None
                    /\ ExperimentUnchanged]_vars

\* C16 witness: the optimizer has answered an empty list, with candidates
\* working and finished; get_next_candidate has returned None.
C16_Witness ==
    /\ last.op = "get_next_candidate" /\ last.b = "empty"
    /\ last.ret = None /\ ~last.raised
    /\ candidates_working # <<>> /\ candidates_finished # <<>>

\* lst without the occurrences of x
Without(lst, x) ==
    LET Other(y) == y # x IN SelectSeq(lst, Other)

\* C17: with candidates_pending not empty, get_next_candidate returns the
\* candidate appended last, and the candidates that stay pending keep their
\* order, so that successive calls return them in reverse order of
\* insertion.
C17_Lifo ==
    [][(last'.op = "get_next_candidate" /\ candidates_pending # <<>>)
        => /\ last'.ret = candidates_pending[Len(candidates_pending)]
           /\ Without(candidates_pending', last'.ret)
                  = Without(candidates_pending, last'.ret)]_vars

\* C17 witness: a call has popped the last pending candidate, which now
\* follows in candidates_working the one popped before it.
C17_Witness ==
    /\ last.op = "get_next_candidate" /\ last.b = "not asked"
    /\ Len(candidates_working) = 2
    /\ candidates_working[1] # candidates_working[2]
    /\ last.ret = candidates_working[2]
    /\ candidates_pending = <<>>

\* ------------------------------------------------------------ concurrency
AllIdle == \A w \in Workers : ~InCall(w)

\* The last calls of w1 and w2 have both returned, without raising, and
\* were in progress at the same time.
Overlapped(w1, w2) ==
    /\ w1 # w2
    /\ ~InCall(w1) /\ ~InCall(w2)
    /\ workers[w1].overlap /\ workers[w2].overlap
    /\ ~workers[w1].raised /\ ~workers[w2].raised

\* C18: two get_next_candidate calls of different callers that were in
\* progress at the same time and each returned a candidate popped from
\* candidates_pending never return the same candidate.
C18_PullsDiffer ==
    \A w1, w2 \in Workers :
        (/\ Overlapped(w1, w2)
         /\ workers[w1].op = "get_next_candidate" /\ workers[w1].popped
         /\ workers[w2].op = "get_next_candidate" /\ workers[w2].popped)
            => workers[w1].ret # workers[w2].ret

\* C19: after update(c, "pausing") and update(c, "finished") of different
\* callers were in progress at the same time and both returned, c is in
\* at most one of the three lists.
C19_OneListAfterPushes ==
    \A w1, w2 \in Workers :
        (/\ Overlapped(w1, w2)
         /\ AllIdle
         /\ workers[w1].op = "update" /\ workers[w1].status = "pausing"
         /\ workers[w2].op = "update" /\ workers[w2].status = "finished"
         /\ workers[w1].cand = workers[w2].cand)
            => ListsHolding(workers[w1].cand) <= 1

\* C20: once every call has returned, the last ones being two
\* update(c, "finished") that were in progress at the same time,
\* best_candidate is a finished candidate and no finished candidate is
\* better than it.
C20_NoLostBest ==
    (/\ AllIdle
     /\ \E w1, w2 \in Workers :
            /\ Overlapped(w1, w2)
            /\ workers[w1].op = "update" /\ workers[w1].status = "finished"
            /\ workers[w2].op = "update" /\ workers[w2].status = "finished")
        => /\ In(best_candidate, candidates_finished)
           /\ \A i \in 1..Len(candidates_finished) :
                  ~better_cand(result, candidates_finished[i], best_candidate)

\* ---------------------------------------------------- acquisition claims
\* C30: where the surrogate's variance is 0 and the best candidate has a
\* result, _evaluate_vector raises nothing and returns the value 0 and the
\* gradient 0, whatever the mean, the best result, the tradeoff and the
\* direction of the optimization.
C30_ZeroVarianceZeroEI ==
    (/\ last.op = "_evaluate_vector"
     /\ last.a.variance = 0
     /\ best_candidate # None /\ result[best_candidate] # None)
        => /\ ~last.raised
           /\ last.ret.value = 0
           /\ last.ret.gradient = 0

\* C30 witness: a maximization, a mean above the best result and a
\* tradeoff, evaluated at a point of variance 0.
C30_Witness ==
    /\ last.op = "_evaluate_vector"
    /\ last.a.variance = 0 /\ last.b = 1
    /\ ~minimization_problem
    /\ best_candidate # None /\ result[best_candidate] # None
    /\ last.a.mean > result[best_candidate]
    /\ ~last.raised /\ last.ret.value = 0

\* C26: with a directory to write to, every get_next_candidate and every
\* update that changed the experiment, also one whose retraining raised,
\* has written the state; with none, nothing is written.
C26_WrittenAfterEveryChange ==
    IF write_dir = NoDir THEN Calls(trace, "json.dump") = 0
    ELSE (\/ last.op = "get_next_candidate"
          \/ /\ last.op = "update"
             /\ \E i \in 1..Len(trace) :
                    trace[i] \in {"add_finished", "add_pausing",
                                  "add_working"})
             => /\ Calls(trace, "json.dump") = 1
                /\ trace[Len(trace)] = "experiment.write_state_to_file"

\* C27: the series of _best_result_per_step_data follow candidates_finished
\* in its order: at step i, step_evaluation is the result of the i-th
\* finished candidate and step_best the result of one of the first i
\* finished candidates than which none of them is better.
C27_PerStepSeries ==
    LET data == best_result_per_step_data
        n == Len(candidates_finished)
    IN  /\ Len(data.x) = n /\ Len(data.step_evaluation) = n
        /\ Len(data.step_best) = n
        /\ \A i \in 1..n :
               /\ data.x[i] = i - 1
               /\ data.step_evaluation[i] = result[candidates_finished[i]]
               /\ \E j \in 1..i :
                      /\ data.step_best[i] = result[candidates_finished[j]]
                      /\ \A k \in 1..i :
                             ~better_cand(result, candidates_finished[k],
                                          candidates_finished[j])

\* C27 witness: a minimization with the results 2, 1, 2 finished in that
\* order, whose best series is 2, 1, 1.
C27_Witness ==
    /\ minimization_problem
    /\ best_result_per_step_data.step_evaluation = <<2, 1, 2>>
    /\ best_result_per_step_data.step_best = <<2, 1, 1>>

\* the base compute_proposals has returned its list
BaseReturned ==
    /\ proposal.pc \in {"minimize", "done"}
    /\ proposal.random_proposals # <<>>

\* the samples that proposal p is
SamplesOf(p) ==
    {i \in 1..Len(proposal.evaluated_params) :
         proposal.evaluated_params[i] = p}

\* C22: a compute_proposals run on an experiment whose best candidate has a
\* result raises nothing; when its random search has returned, it has
\* evaluated max(random_steps, number_proposals) samples and returns
\* number_proposals points, each of them a sample, the first of them a
\* sample than which no sample has a smaller minimizing score and no sample
\* a greater evaluate score.
C22_RandomSearchReturnsBest ==
    LET n == proposal.number_proposals
        steps == proposal.random_steps_given
        first == proposal.random_proposals[1]
    IN  /\ (proposal.pc = "done" /\ ~XBestRaises /\ XBest # None)
               => proposal.raised = "none"
        /\ BaseReturned =>
               /\ n >= 1
               /\ Len(proposal.evaluated_params)
                      = IF steps > n THEN steps ELSE n
               /\ Len(proposal.evaluated_acq_scores)
                      = Len(proposal.evaluated_params)
               /\ Len(proposal.random_proposals) = n
               /\ \A k \in 1..n :
                      SamplesOf(proposal.random_proposals[k]) # {}
               /\ \A i \in SamplesOf(first) :
                      \A j \in 1..Len(proposal.evaluated_params) :
                          /\ ~Lt(proposal.evaluated_acq_scores[j],
                                 proposal.evaluated_acq_scores[i])
                          /\ ~Lt(proposal.evaluated_values[i],
                                 proposal.evaluated_values[j])

\* C22 witness: a random search asked for one step and two proposals has
\* returned two points, the first of them the second of its two samples,
\* whose minimizing score is the smaller.
C22_Witness ==
    /\ BaseReturned
    /\ proposal.number_proposals = 2
    /\ proposal.random_steps_given = 1
    /\ Len(proposal.evaluated_params) = 2
    /\ proposal.random_proposals[1] = proposal.evaluated_params[2]
    /\ Lt(proposal.evaluated_acq_scores[2], proposal.evaluated_acq_scores[1])

\* ExpectedImprovement.compute_proposals has returned after a minimization
\* that reported result.success = success
Minimized(success) ==
    /\ proposal.pc = "done"
    /\ proposal.acq = "EI"
    /\ proposal.optimization # "random"
    /\ BaseReturned
    /\ proposal.raised = "none"
    /\ proposal.success = success

\* x_min as a dictionary of the parameter names
XMinDict ==
    [pn \in ParamNames |-> proposal.x_min[Place(Sorted(ParamNames), pn)]]

\* C24 as stated: after a successful minimization the refined point is
\* first, the top proposal of the random search is no longer in the list,
\* and the proposals #2..#N of the random search are kept.
C24_RefinedReplacesTop ==
    Minimized(TRUE) =>
        /\ Len(proposal.proposals) = proposal.number_proposals
        /\ proposal.proposals[1] = XMinDict
        /\ \A k \in 1..Len(proposal.proposals) :
               proposal.proposals[k] # proposal.random_proposals[1]
        /\ \A k \in 2..proposal.number_proposals :
               proposal.proposals[k] = proposal.random_proposals[k]

\* C24: after a successful minimization compute_proposals returns
\* number_proposals points: the refined point first, then the proposals
\* #1..#N-1 of the random search in their order, its last proposal dropped.
C24_RefinedFirstLastDropped ==
    Minimized(TRUE) =>
        /\ Len(proposal.proposals) = proposal.number_proposals
        /\ proposal.proposals[1] = XMinDict
        /\ \A k \in 1..(proposal.number_proposals - 1) :
               proposal.proposals[k + 1] = proposal.random_proposals[k]

\* C24 witness: a successful minimization that moved away from the top of
\* two random-search proposals, of which the second was another sample.
C24_Witness ==
    /\ Minimized(TRUE)
    /\ proposal.number_proposals = 2
    /\ proposal.random_proposals[2] # proposal.random_proposals[1]
    /\ proposal.proposals[1] # proposal.random_proposals[1]
    /\ proposal.proposals[2] = proposal.random_proposals[1]

\* C25: after a minimization that did not converge compute_proposals has
\* raised nothing and returns the list of the random search as it was.
C25_NotConvergedReturnsBaseline ==
    /\ (proposal.pc = "done" /\ proposal.acq = "EI" /\ BaseReturned)
           => proposal.raised = "none"
    /\ Minimized(FALSE) => proposal.proposals = proposal.random_proposals

\* C25 witness: a minimization that moved and did not converge, after a
\* random search that returned two proposals.
C25_Witness ==
    /\ Minimized(FALSE)
    /\ proposal.number_proposals = 2
    /\ proposal.x_min # translate_dict_vector(proposal.random_proposals[1])
    /\ Len(proposal.proposals) = 2

\* C28: no step of compute_proposals, the evaluations of its samples and
\* the minimization included, changes candidates_pending,
\* candidates_working, candidates_finished, best_candidate, the results,
\* parameter_definitions or minimization_problem.
C28_ProposalsReadOnly ==
    [][proposal' # proposal =>
           /\ candidates_pending' = candidates_pending
           /\ candidates_working' = candidates_working
           /\ candidates_finished' = candidates_finished
           /\ best_candidate' = best_candidate
           /\ result' = result
           /\ parameter_definitions' = parameter_definitions
           /\ minimization_problem' = minimization_problem]_vars

\* C28 witness: compute_proposals has returned after a successful
\* minimization on an experiment with a finished, best candidate.
C28_Witness ==
    /\ Minimized(TRUE)
    /\ candidates_finished = <<1>>
    /\ best_candidate = 1
    /\ Len(proposal.x_bests) > Len(proposal.evaluated_params)

\* some parameter definition is of a kind that is not sampled
SomeUnsupported ==
    \E pn \in ParamNames :
        parameter_definitions[pn] \notin {"NumericParamDef",
                                          "PositionParamDef"}

\* C29: on an experiment with a parameter definition of another kind than
\* numeric or position, wherever it is among the names, compute_proposals
\* ends with a TypeError: it scores no sample and returns no proposals.
C29_UnsupportedKindTypeError ==
    (SomeUnsupported /\ proposal.pc # "idle") =>
        /\ proposal.pc \in {"sample", "done"}
        /\ proposal.pc = "done" => proposal.raised = "TypeError"
        /\ proposal.evaluated_params = <<>>
        /\ proposal.evaluated_acq_scores = <<>>
        /\ proposal.x_bests = <<>>
        /\ proposal.proposals = <<>>
        /\ proposal.random_proposals = <<>>

\* C29 witness: compute_proposals has raised TypeError on an experiment
\* whose first parameter is numeric and whose last is nominal.
C29_Witness ==
    /\ parameter_definitions[1] = "NumericParamDef"
    /\ parameter_definitions[NumParams] = "NominalParamDef"
    /\ proposal.pc = "done"
    /\ proposal.raised = "TypeError"

\* C23 as stated: whatever the scores of the samples and whatever the draw
\* between 0 and their sum, the walk stops at an index of a sample.
C23_WalkStaysInRange ==
    proposal.pc = "walk" =>
        \A sum_rand \in Draws(proposal.sum_acq) :
            Walk(proposal.sum_acq, sum_rand, 0) < Len(proposal.sum_acq)

\* C21 as stated: every score of one compute_proposals run is computed
\* with the same result of best_candidate.
C21_OneBestPerRun ==
    \A i, j \in 1..Len(proposal.x_bests) :
        proposal.x_bests[i] = proposal.x_bests[j]

\* C31 as stated: when add_finished(c) has returned, c is in
\* candidates_finished and in neither candidates_pending nor
\* candidates_working, whatever the earlier calls were.
C31_FinishedLeavesQueues ==
    (last.op = "add_finished" /\ ~last.raised)
        => /\ In(last.a, candidates_finished)
           /\ ~In(last.a, candidates_pending)
           /\ ~In(last.a, candidates_working)

\* the place of name among names in sorted order: one more than the number
\* of names before it
SortedPlace(names, name) == Cardinality({n \in names : n < name}) + 1

\* C32: _translate_dict_vector(x) puts at position i the value of the i-th
\* name of x in sorted order, and _translate_vector_dict of that vector
\* and the names of x, in whatever order they are given, is x again.
C32_CodecRoundTrip ==
    [][/\ last'.op = "_translate_dict_vector"
           => /\ DOMAIN last'.ret = 1..Cardinality(DOMAIN last'.a)
              /\ \A name \in DOMAIN last'.a :
                     last'.ret[SortedPlace(DOMAIN last'.a, name)]
                         = last'.a[name]
       /\ last'.op = "_translate_vector_dict"
           => /\ last'.a = last.ret
              /\ last'.ret = last.a]_vars

\* C32 witness: the dictionary {1: 2, 3: 1} has gone to the vector (2, 1)
\* and come back from it with its names given as 3, 1.
C32_Witness ==
    /\ last.op = "_translate_vector_dict"
    /\ last.a = <<2, 1>>
    /\ last.b = <<3, 1>>
    /\ DOMAIN last.ret = {1, 3}
    /\ last.ret[1] = 2
    /\ last.ret[3] = 1

\* C33 as stated: the candidate get_next_candidate returns was not in
\* candidates_working before the call, and after the call it is once in
\* candidates_working and not in candidates_pending.
C33_HandsOutIdleCandidate ==
    [][(last'.op = "get_next_candidate" /\ last'.ret # None)
        => /\ ~In(last'.ret, candidates_working)
           /\ Count(last'.ret, candidates_working') = 1
           /\ ~In(last'.ret, candidates_pending')]_vars

\* C34: once a candidate has finished, the last element of the step_best
\* series of _best_result_per_step_data is the result of best_candidate.
C34_SeriesEndsAtBest ==
    LET n == Len(candidates_finished)
    IN  n > 0 =>
            /\ best_candidate # None
            /\ Len(best_result_per_step_data.step_best) = n
            /\ best_result_per_step_data.step_best[n] = result[best_candidate]

\* C34 witness: under minimization a candidate of result 1 and then one of
\* result 2 have finished: the first is best_candidate and the series of
\* the best ends at its result, not at the result finished last.
C34_Witness ==
    /\ minimization_problem
    /\ Len(candidates_finished) = 2
    /\ best_candidate = candidates_finished[1]
    /\ result[candidates_finished[1]] = 1
    /\ result[candidates_finished[2]] = 2
    /\ best_result_per_step_data.step_best = <<1, 1>>

\* C35: a call of add_finished, made directly or by update(c, "finished"),
\* appends its candidate to candidates_finished, and every other call
\* leaves candidates_finished as it was.
C35_FinishedAppendOnly ==
    [][IF \/ last'.op = "add_finished" /\ ~last'.raised
          \/ /\ last'.op = "update" /\ last'.b = "finished"
             /\ isCandidate(last'.a)
       THEN candidates_finished' = Append(candidates_finished, last'.a)
       ELSE candidates_finished' = candidates_finished]_vars

\* C35 witness: update has finished a second candidate, which follows in
\* candidates_finished the one finished before, while another call left a
\* candidate working.
C35_Witness ==
    /\ last.op = "update" /\ last.b = "finished"
    /\ Len(candidates_finished) = 2
    /\ candidates_finished[2] = last.a
    /\ candidates_finished[1] # last.a
    /\ candidates_working # <<>>
====
